---------------------------- MODULE Spec2Model ----------------------------
(***************************************************************************)
(* Model of example_bots/simple_telegram_bot/bot.py: a Telegram bot built  *)
(* on python-telegram-bot.  Text is modelled as a sequence of characters   *)
(* (one-character strings; an emoji or a line feed is one element), so     *)
(* that substring containment, lower-casing and joining are computed.      *)
(***************************************************************************)
EXTENDS Naturals, Sequences, FiniteSets, TLC

VARIABLES
    BOT_TOKEN,      \* os.getenv('TELEGRAM_BOT_TOKEN'): "None" (unset), "" or a token
    phase,          \* "import" | "loaded" | "exited" | "polling"
    exit_code,      \* process exit status once phase = "exited", else -
    handlers,       \* application.handlers[0]: the handlers in registration order
    error_handlers, \* application.error_handlers
    update_queue,   \* application.update_queue: updates fetched, not yet processed
    state,          \* dispatch loop: "Idle" | "Processing"
    cur,            \* the update being processed (the last one, when Idle)
    pc,             \* position inside the dispatch cycle of cur
    pending,        \* the reply handed to reply_text, awaiting the transport
    sent,           \* replies delivered for cur
    invoked,        \* handler callbacks invoked for cur
    logged,         \* errors recorded by error_handler for cur
    prev_failed     \* whether the update processed before cur ended in an error

vars == <<BOT_TOKEN, phase, exit_code, handlers, error_handlers, update_queue,
          state, cur, pc, pending, sent, invoked, logged, prev_failed>>

-----------------------------------------------------------------------------
(* Bounds of the model *)

\* capacity of update_queue explored
MaxQueue == 1
\* a free text is a concatenation of at most MaxFrags fragments
MaxFrags == 3
\* context.args holds at most MaxArgs words
MaxArgs == 2

-----------------------------------------------------------------------------
(* Text helpers: str.lower, the `in` operator on str, str.join *)

UpperChars == <<"A","B","C","D","E","F","G","H","I","J","K","L","M",
                "N","O","P","Q","R","S","T","U","V","W","X","Y","Z">>

LowerChars == <<"a","b","c","d","e","f","g","h","i","j","k","l","m",
                "n","o","p","q","r","s","t","u","v","w","x","y","z">>

LowerChar(c) ==
    IF \E i \in 1..Len(UpperChars) : UpperChars[i] = c
    THEN LowerChars[CHOOSE i \in 1..Len(UpperChars) : UpperChars[i] = c]
    ELSE c

\* str.lower()
Lower(s) == [i \in 1..Len(s) |-> LowerChar(s[i])]

\* needle in hay
Contains(hay, needle) ==
    \E i \in 0..(Len(hay) - Len(needle)) :
        \A j \in 1..Len(needle) : hay[i + j] = needle[j]

RECURSIVE Join(_)
\* ' '.join(args)
Join(args) ==
    IF args = <<>> THEN <<>>
    ELSE IF Len(args) = 1 THEN args[1]
    ELSE args[1] \o <<" ">> \o Join(Tail(args))

-----------------------------------------------------------------------------
(* String literals of the program *)

StartHead ==
    <<"WAVE"," ","H","e","l","l","o"," ">>

StartTail ==
    <<"!","\n","\n","I","'","m"," ","a"," ","s","i","m","p","l","e"," ","e","x","a","m","p","l",
      "e"," ","b","o","t"," ","r","u","n","n","i","n","g"," ","o","n"," ","T","E","L","E","B",
      "O","T"," ","H","O","S","T","E","R","!"," ","ROBOT","\n","\n","T","r","y"," ","t","h","e",
      "s","e"," ","c","o","m","m","a","n","d","s",":","\n","/","h","e","l","p"," ","-"," ","S",
      "h","o","w"," ","a","v","a","i","l","a","b","l","e"," ","c","o","m","m","a","n","d","s",
      "\n","/","a","b","o","u","t"," ","-"," ","L","e","a","r","n"," ","a","b","o","u","t"," ",
      "t","h","i","s"," ","b","o","t","\n","/","e","c","h","o"," ","<","m","e","s","s","a","g",
      "e",">"," ","-"," ","E","c","h","o"," ","y","o","u","r"," ","m","e","s","s","a","g","e",
      " ","b","a","c","k","\n","\n","O","r"," ","j","u","s","t"," ","s","e","n","d"," ","m","e",
      " ","a","n","y"," ","m","e","s","s","a","g","e"," ","a","n","d"," ","I","'","l","l"," ",
      "r","e","s","p","o","n","d","!">>

HelpText ==
    <<"BOOK"," ","*","A","v","a","i","l","a","b","l","e"," ","C","o","m","m","a","n","d","s",
      ":","*","\n","\n","/","s","t","a","r","t"," ","-"," ","S","t","a","r","t"," ","t","h","e",
      " ","b","o","t","\n","/","h","e","l","p"," ","-"," ","S","h","o","w"," ","t","h","i","s",
      " ","h","e","l","p"," ","m","e","s","s","a","g","e","\n","/","a","b","o","u","t"," ","-",
      " ","L","e","a","r","n"," ","a","b","o","u","t"," ","t","h","i","s"," ","b","o","t","\n",
      "/","e","c","h","o"," ","<","t","e","x","t",">"," ","-"," ","E","c","h","o"," ","y","o",
      "u","r"," ","m","e","s","s","a","g","e","\n","\n","Y","o","u"," ","c","a","n"," ","a","l",
      "s","o"," ","j","u","s","t"," ","s","e","n","d"," ","m","e"," ","a","n","y"," ","t","e",
      "x","t"," ","m","e","s","s","a","g","e","!">>

AboutText ==
    <<"INFO","VS16"," ","*","A","b","o","u","t"," ","T","h","i","s"," ","B","o","t","*","\n",
      "\n","T","h","i","s"," ","i","s"," ","a"," ","s","i","m","p","l","e"," ","e","x","a","m",
      "p","l","e"," ","T","e","l","e","g","r","a","m"," ","b","o","t"," ","h","o","s","t","e",
      "d"," ","o","n"," ","T","E","L","E","B","O","T"," ","H","O","S","T","E","R",".","\n","\n",
      "GLOBE"," ","P","l","a","t","f","o","r","m",":"," ","T","E","L","E","B","O","T"," ","H",
      "O","S","T","E","R","\n","LAPTOP"," ","L","a","n","g","u","a","g","e",":"," ","P","y","t",
      "h","o","n","\n","BOOKS"," ","L","i","b","r","a","r","y",":"," ","p","y","t","h","o","n",
      "-","t","e","l","e","g","r","a","m","-","b","o","t","\n","\n","Y","o","u"," ","c","a","n",
      " ","d","e","p","l","o","y"," ","y","o","u","r"," ","o","w","n"," ","b","o","t","s"," ",
      "j","u","s","t"," ","l","i","k","e"," ","t","h","i","s"," ","o","n","e","!">>

EchoHead ==
    <<"ARROWS"," ","Y","o","u"," ","s","a","i","d",":"," ">>

EchoUsage ==
    <<"P","l","e","a","s","e"," ","p","r","o","v","i","d","e"," ","a"," ","m","e","s","s","a",
      "g","e"," ","t","o"," ","e","c","h","o","!","\n","\n","E","x","a","m","p","l","e",":"," ",
      "/","e","c","h","o"," ","H","e","l","l","o"," ","W","o","r","l","d">>

GreetHead ==
    <<"H","e","l","l","o"," ">>

GreetTail ==
    <<"!"," ","WAVE"," ","H","o","w"," ","c","a","n"," ","I"," ","h","e","l","p"," ","y","o",
      "u"," ","t","o","d","a","y","?">>

WellBeingText ==
    <<"I","'","m"," ","d","o","i","n","g"," ","g","r","e","a","t","!"," ","T","h","a","n","k",
      "s"," ","f","o","r"," ","a","s","k","i","n","g","!"," ","SMILE">>

FarewellText ==
    <<"G","o","o","d","b","y","e","!"," ","C","o","m","e"," ","b","a","c","k"," ","s","o","o",
      "n","!"," ","WAVE">>

DefaultHead ==
    <<"Y","o","u"," ","s","a","i","d",":"," ">>

DefaultTail ==
    <<"\n","\n","T","r","y"," ","u","s","i","n","g"," ","/","h","e","l","p"," ","t","o"," ","s",
      "e","e"," ","w","h","a","t"," ","I"," ","c","a","n"," ","d","o","!">>

S_start == <<"s","t","a","r","t">>
S_help == <<"h","e","l","p">>
S_about == <<"a","b","o","u","t">>
S_echo == <<"e","c","h","o">>
S_hello == <<"h","e","l","l","o">>
S_hi == <<"h","i">>
S_how_are_you == <<"h","o","w"," ","a","r","e"," ","y","o","u">>
S_bye == <<"b","y","e">>
S_START == <<"S","T","A","R","T">>
S_foo == <<"f","o","o">>
S_Hello == <<"H","e","l","l","o">>
S_World == <<"W","o","r","l","d">>
S_Ann == <<"A","n","n">>
S_Hi == <<"H","i">>
S_BYE == <<"B","Y","E">>
S_How_Are_You == <<"H","o","w"," ","A","r","e"," ","Y","o","u">>
S_ok == <<"o","k">>
S_sp == <<" ">>
-----------------------------------------------------------------------------
(* Updates delivered by the transport (telegram.Update) *)

\* which slot of the Update carries the message
UpdateKinds == {"message", "edited_message", "channel_post"}

NoUpdate ==
    [kind |-> "none", bot_command |-> <<>>, args |-> <<>>, text |-> <<>>,
     first_name |-> <<>>]

\* a message whose text starts with a bot_command entity "/token"; args are the
\* whitespace-separated words after it
CommandUpdate(kind, first_name, token, args) ==
    [kind |-> kind, bot_command |-> token, args |-> args,
     text |-> <<"/">> \o token \o (IF args = <<>> THEN <<>> ELSE <<" ">> \o Join(args)),
     first_name |-> first_name]

\* a message without a leading bot_command entity
TextUpdate(kind, first_name, text) ==
    [kind |-> kind, bot_command |-> <<>>, args |-> <<>>, text |-> text,
     first_name |-> first_name]

\* update.message is set only for a new message; it is None for an edited
\* message or a channel post (those live in update.edited_message / channel_post)
HasMessage(update) == update.kind = "message"

is_command(update) == update.bot_command # <<>>

-----------------------------------------------------------------------------
(* Outcome of a handler callback up to its await of reply_text *)

Raise(e) == [raised |-> TRUE, error |-> e, text |-> <<>>, parse_mode |-> "None"]

Reply(text, parse_mode) ==
    [raised |-> FALSE, error |-> "None", text |-> text, parse_mode |-> parse_mode]

NoReply == Reply(<<>>, "None")

\* the part of text before the first occurrence of needle
Before(text, needle) ==
    LET at == CHOOSE i \in 1..Len(text) :
                /\ i + Len(needle) - 1 <= Len(text)
                /\ SubSeq(text, i, i + Len(needle) - 1) = needle
                /\ \A j \in 1..(i - 1) : SubSeq(text, j, j + Len(needle) - 1) # needle
    IN  SubSeq(text, 1, at - 1)

\* variant: the "/echo" line and what follows it left out of the start text
start_command_without_echo(update) ==
    IF ~HasMessage(update) THEN Raise("AttributeError")
    ELSE Reply(StartHead \o update.first_name \o Before(StartTail, <<"/">> \o S_echo), "None")

start_command(update) ==
    IF ~HasMessage(update) THEN Raise("AttributeError")
    ELSE Reply(StartHead \o update.first_name \o StartTail, "None")

\* variant: parse_mode left out of the help reply
help_command_plain(update) ==
    IF ~HasMessage(update) THEN Raise("AttributeError")
    ELSE Reply(HelpText, "None")

help_command(update) ==
    IF ~HasMessage(update) THEN Raise("AttributeError")
    ELSE Reply(HelpText, "Markdown")

about_command(update) ==
    IF ~HasMessage(update) THEN Raise("AttributeError")
    ELSE Reply(AboutText, "Markdown")

\* variant: the arguments are echoed without the emptiness test
echo_command_unchecked(update) ==
    IF ~HasMessage(update) THEN Raise("AttributeError")
    ELSE Reply(EchoHead \o Join(update.args), "None")

echo_command(update) ==
    IF update.args # <<>>
    THEN IF ~HasMessage(update) THEN Raise("AttributeError")
         ELSE Reply(EchoHead \o Join(update.args), "None")
    ELSE IF ~HasMessage(update) THEN Raise("AttributeError")
         ELSE Reply(EchoUsage, "None")

\* variant: the farewell rule tested before the greeting rule
handle_message_bye_first(update) ==
    IF ~HasMessage(update) THEN Raise("AttributeError")
    ELSE LET user_message == update.text
             user_name == update.first_name
         IN  IF Contains(Lower(user_message), S_bye)
             THEN Reply(FarewellText, "None")
             ELSE IF Contains(Lower(user_message), S_hello) \/ Contains(Lower(user_message), S_hi)
             THEN Reply(GreetHead \o user_name \o GreetTail, "None")
             ELSE IF Contains(Lower(user_message), S_how_are_you)
             THEN Reply(WellBeingText, "None")
             ELSE Reply(DefaultHead \o user_message \o DefaultTail, "None")

handle_message(update) ==
    IF ~HasMessage(update) THEN Raise("AttributeError")
    ELSE LET user_message == update.text
             user_name == update.first_name
         IN  IF Contains(Lower(user_message), S_hello) \/ Contains(Lower(user_message), S_hi)
             THEN Reply(GreetHead \o user_name \o GreetTail, "None")
             ELSE IF Contains(Lower(user_message), S_how_are_you)
             THEN Reply(WellBeingText, "None")
             ELSE IF Contains(Lower(user_message), S_bye)
             THEN Reply(FarewellText, "None")
             ELSE Reply(DefaultHead \o user_message \o DefaultTail, "None")

\* variant: the error handler also answers the user
error_handler_replying(update, error) ==
    [log |-> <<error>>, replies |-> <<Reply(<<"e", "r", "r", "o", "r">>, "None")>>]

\* logger.error(...): records the error, sends nothing
error_handler(update, error) == [log |-> <<error>>, replies |-> <<>>]

-----------------------------------------------------------------------------
(* Handler registration and routing *)

CommandHandler(command, callback) ==
    [type |-> "CommandHandler", command |-> Lower(command), callback |-> callback]

MessageHandler(callback) ==
    [type |-> "MessageHandler", command |-> <<>>, callback |-> callback]

\* the handlers main() registers, in order
RegisteredHandlers ==
    << CommandHandler(S_start, "start_command"),
       CommandHandler(S_help, "help_command"),
       CommandHandler(S_about, "about_command"),
       CommandHandler(S_echo, "echo_command"),
       MessageHandler("handle_message") >>

\* variant: filters.TEXT alone
MessageFilterTextOnly(update) == update.text # <<>>

\* filters.TEXT & ~filters.COMMAND
MessageFilter(update) == update.text # <<>> /\ ~is_command(update)

\* CommandHandler.check_update: new or edited messages only, the command token
\* compared lower-cased; MessageHandler.check_update: the filter on the
\* effective message of any kind
check_update(h, update) ==
    IF h.type = "CommandHandler"
    THEN /\ update.kind \in {"message", "edited_message"}
         /\ is_command(update)
         /\ Lower(update.bot_command) = h.command
    ELSE MessageFilter(update)

\* index of the first registered handler accepting the update, 0 if none
Select(hs, update) ==
    IF \E i \in 1..Len(hs) : check_update(hs[i], update)
    THEN CHOOSE i \in 1..Len(hs) :
            /\ check_update(hs[i], update)
            /\ \A j \in 1..(i - 1) : ~check_update(hs[j], update)
    ELSE 0

RegisteredCommands(hs) ==
    {hs[i].command : i \in {k \in 1..Len(hs) : hs[k].type = "CommandHandler"}}

-----------------------------------------------------------------------------
(* Inputs *)

Tokens == {"None", "", "123:abc"}

CommandTokens == {S_start, S_help, S_about, S_echo, S_START, S_foo}

\* updates offered to the running bot
Updates ==
    {CommandUpdate(k, S_Ann, t, <<>>) : k \in UpdateKinds, t \in CommandTokens}
    \cup {CommandUpdate(k, S_Ann, S_echo, <<S_Hello, S_World>>) : k \in UpdateKinds}
    \cup {TextUpdate(k, S_Ann, t) : k \in UpdateKinds,
                                    t \in {S_Hi, S_hello \o S_sp \o S_bye, S_ok}}

-----------------------------------------------------------------------------
(* The program *)

Init ==
    /\ BOT_TOKEN \in Tokens
    /\ phase = "import"
    /\ exit_code = "-"
    /\ handlers = <<>>
    /\ error_handlers = <<>>
    /\ update_queue = <<>>
    /\ state = "Idle"
    /\ cur = NoUpdate
    /\ pc = "-"
    /\ pending = NoReply
    /\ sent = <<>>
    /\ invoked = <<>>
    /\ logged = <<>>
    /\ prev_failed = FALSE

\* variant: `BOT_TOKEN is None`
TokenIsNone(token) == token = "None"

\* `not BOT_TOKEN`
TokenMissing(token) == token = "None" \/ token = ""

\* module level, lines 21-26
CheckToken ==
    /\ phase = "import"
    /\ IF TokenMissing(BOT_TOKEN)
       THEN phase' = "exited" /\ exit_code' = 1
       ELSE phase' = "loaded" /\ exit_code' = exit_code
    /\ UNCHANGED <<BOT_TOKEN, handlers, error_handlers, update_queue, state, cur,
                   pc, pending, sent, invoked, logged, prev_failed>>

\* main(): build the application, register the handlers, start polling
main ==
    /\ phase = "loaded"
    /\ handlers' = RegisteredHandlers
    /\ error_handlers' = <<"error_handler">>
    /\ phase' = "polling"
    /\ UNCHANGED <<BOT_TOKEN, exit_code, update_queue, state, cur, pc, pending,
                   sent, invoked, logged, prev_failed>>

\* the updater's polling task puts a fetched update on update_queue
Poll ==
    /\ phase = "polling"
    /\ Len(update_queue) < MaxQueue
    /\ \E u \in Updates : update_queue' = Append(update_queue, u)
    /\ UNCHANGED <<BOT_TOKEN, phase, exit_code, handlers, error_handlers, state,
                   cur, pc, pending, sent, invoked, logged, prev_failed>>

\* variant: the next update is taken while the current one is still processed
FetchConcurrently ==
    /\ phase = "polling"
    /\ update_queue # <<>>
    /\ cur' = Head(update_queue)
    /\ update_queue' = Tail(update_queue)
    /\ state' = "Processing"
    /\ pc' = "route"
    /\ pending' = NoReply
    /\ sent' = <<>>
    /\ invoked' = <<>>
    /\ logged' = <<>>
    /\ prev_failed' = (logged # <<>>)
    /\ UNCHANGED <<BOT_TOKEN, phase, exit_code, handlers, error_handlers>>

\* the update fetcher takes the next update; updates are processed one at a
\* time (concurrent_updates is left at its default)
Fetch ==
    /\ phase = "polling"
    /\ state = "Idle"
    /\ update_queue # <<>>
    /\ cur' = Head(update_queue)
    /\ update_queue' = Tail(update_queue)
    /\ state' = "Processing"
    /\ pc' = "route"
    /\ pending' = NoReply
    /\ sent' = <<>>
    /\ invoked' = <<>>
    /\ logged' = <<>>
    /\ prev_failed' = (logged # <<>>)
    /\ UNCHANGED <<BOT_TOKEN, phase, exit_code, handlers, error_handlers>>

\* process_update: the first handler whose check_update accepts the update is
\* the only one called; with none the update is dropped
Route ==
    /\ pc = "route"
    /\ LET i == Select(handlers, cur)
       IN  IF i = 0
           THEN state' = "Idle" /\ pc' = "-"
           ELSE state' = state /\ pc' = handlers[i].callback
    /\ UNCHANGED <<BOT_TOKEN, phase, exit_code, handlers, error_handlers,
                   update_queue, cur, pending, sent, invoked, logged, prev_failed>>

\* a callback runs up to its reply_text call
Invoke(name, r) ==
    /\ pc = name
    /\ invoked' = Append(invoked, name)
    /\ IF r.raised
       THEN pc' = "error" /\ pending' = r
       ELSE pc' = "reply_text" /\ pending' = r
    /\ UNCHANGED <<BOT_TOKEN, phase, exit_code, handlers, error_handlers,
                   update_queue, state, cur, sent, logged, prev_failed>>

StartCommand == Invoke("start_command", start_command(cur))

HelpCommand == Invoke("help_command", help_command(cur))

AboutCommand == Invoke("about_command", about_command(cur))

EchoCommand == Invoke("echo_command", echo_command(cur))

HandleMessage == Invoke("handle_message", handle_message(cur))

\* update.message.reply_text: the transport delivers the reply or fails
ReplyText ==
    /\ pc = "reply_text"
    /\ \E ok \in BOOLEAN :
         IF ok
         THEN /\ sent' = Append(sent, pending)
              /\ state' = "Idle" /\ pc' = "-"
              /\ pending' = pending
         ELSE /\ pending' = Raise("NetworkError")
              /\ pc' = "error"
              /\ UNCHANGED <<sent, state>>
    /\ UNCHANGED <<BOT_TOKEN, phase, exit_code, handlers, error_handlers,
                   update_queue, cur, invoked, logged, prev_failed>>

\* variant: the error escapes the dispatch loop and ends the process
ErrorHandlerFatal ==
    /\ pc = "error"
    /\ phase' = "exited"
    /\ exit_code' = 1
    /\ pc' = "-"
    /\ UNCHANGED <<BOT_TOKEN, handlers, error_handlers, update_queue, state, cur,
                   pending, sent, invoked, logged, prev_failed>>

\* process_error: every registered error handler is called with the error,
\* after which the dispatch cycle is over
ErrorHandler ==
    /\ pc = "error"
    /\ LET r == error_handler(cur, pending.error)
       IN  /\ logged' = (IF error_handlers = <<>> THEN logged ELSE logged \o r.log)
           /\ sent' = (IF error_handlers = <<>> THEN sent ELSE sent \o r.replies)
    /\ state' = "Idle"
    /\ pc' = "-"
    /\ UNCHANGED <<BOT_TOKEN, phase, exit_code, handlers, error_handlers,
                   update_queue, cur, pending, invoked, prev_failed>>

Next ==
    \/ CheckToken
    \/ main
    \/ Poll
    \/ Fetch
    \/ Route
    \/ StartCommand
    \/ HelpCommand
    \/ AboutCommand
    \/ EchoCommand
    \/ HandleMessage
    \/ ReplyText
    \/ ErrorHandler

Spec == Init /\ [][Next]_vars

FairSpec ==
    /\ Spec
    /\ WF_vars(CheckToken)
    /\ WF_vars(Route)
    /\ WF_vars(StartCommand)
    /\ WF_vars(HelpCommand)
    /\ WF_vars(AboutCommand)
    /\ WF_vars(EchoCommand)
    /\ WF_vars(HandleMessage)
    /\ WF_vars(ReplyText)
    /\ WF_vars(ErrorHandler)

-----------------------------------------------------------------------------
(* The handler callbacks as functions of their input: a callback is called  *)
(* directly on an update drawn from a wide set, whatever the routing.       *)

Callbacks ==
    {"start_command", "help_command", "about_command", "echo_command", "handle_message"}

Frags == {S_hello, S_Hi, S_bye, S_BYE, S_How_Are_You, S_ok, S_sp, <<"h">>, <<"i">>}

RECURSIVE TextsOf(_)
TextsOf(n) ==
    IF n = 0 THEN {<<>>}
    ELSE LET S == TextsOf(n - 1) IN S \cup {s \o f : s \in S, f \in Frags}

Texts == TextsOf(MaxFrags)

Words == {S_Hello, S_World, S_ok}

RECURSIVE ArgsOf(_)
ArgsOf(n) ==
    IF n = 0 THEN {<<>>}
    ELSE LET S == ArgsOf(n - 1) IN S \cup {Append(s, w) : s \in S, w \in Words}

ArgSeqs == ArgsOf(MaxArgs)

HandlerInputs ==
    {TextUpdate(k, S_Ann, t) : k \in UpdateKinds, t \in Texts}
    \cup {CommandUpdate(k, S_Ann, t, <<>>) : k \in UpdateKinds, t \in CommandTokens}
    \cup {CommandUpdate(k, S_Ann, S_echo, a) : k \in UpdateKinds, a \in ArgSeqs}

HandlerInit ==
    /\ BOT_TOKEN = "123:abc"
    /\ phase = "polling"
    /\ exit_code = "-"
    /\ handlers = RegisteredHandlers
    /\ error_handlers = <<"error_handler">>
    /\ update_queue = <<>>
    /\ state = "Processing"
    /\ cur \in HandlerInputs
    /\ pc \in Callbacks
    /\ pending = NoReply
    /\ sent = <<>>
    /\ invoked = <<>>
    /\ logged = <<>>
    /\ prev_failed = FALSE

HandlerNext ==
    \/ StartCommand
    \/ HelpCommand
    \/ AboutCommand
    \/ EchoCommand
    \/ HandleMessage

HandlerSpec == HandlerInit /\ [][HandlerNext]_vars
-----------------------------------------------------------------------------
(* Properties *)

\* the cycle of cur ended (or has not started) and cur is a real update
Done == state = "Idle" /\ cur.kind # "none"

\* exactly the callback cb ran for cur and its reply was delivered
Replied(cb) == invoked = <<cb>> /\ Len(sent) = 1

\* what a callback, called by name, hands to reply_text
Call(cb, update) ==
    CASE cb = "start_command" -> start_command(update)
      [] cb = "help_command" -> help_command(update)
      [] cb = "about_command" -> about_command(update)
      [] cb = "echo_command" -> echo_command(update)
      [] cb = "handle_message" -> handle_message(update)

\* the registered command names a reply text lists as "/name"
Listed(text) == {n \in RegisteredCommands(RegisteredHandlers) : Contains(text, <<"/">> \o n)}

C2_Theorem ==
    /\ [][phase = "polling" => phase' = "polling"]_vars
    /\ (state = "Processing") ~> (state = "Idle")

C2_Witness == Done /\ logged = <<"AttributeError">> /\ invoked # <<>>

\* C3 as stated: for a command update whose command token is not one of the
\* registered names, no callback is invoked and nothing is sent.
C3_Stated ==
    (cur.kind # "none" /\ is_command(cur)
        /\ cur.bot_command \notin RegisteredCommands(RegisteredHandlers))
    => (invoked = <<>> /\ sent = <<>> /\ pending = NoReply /\ logged = <<>>)

\* C3 amended: for a command update whose command token, lower-cased, is not one
\* of the registered names, no callback is invoked (the text classifier
\* included), nothing is sent and no error is recorded.
C3_Amended ==
    (cur.kind # "none" /\ is_command(cur)
        /\ Lower(cur.bot_command) \notin RegisteredCommands(RegisteredHandlers))
    => (invoked = <<>> /\ sent = <<>> /\ pending = NoReply /\ logged = <<>>)

C3_Witness == Done /\ cur.kind = "message" /\ cur.bot_command = S_foo

\* C4: whenever handle_message replies, the reply is chosen by the first
\* matching rule on the lower-cased text: greeting for "hello" or "hi", else the
\* well-being reply for "how are you", else the farewell for "bye", else the
\* default echoing the text unchanged; a text with both "hello" and "bye" gets
\* the greeting, the empty text the default; on a new message it never raises.
C4_Theorem ==
    invoked = <<"handle_message">> =>
        LET t == Lower(cur.text)
            greet == Contains(t, S_hello) \/ Contains(t, S_hi)
            well == Contains(t, S_how_are_you)
            bye == Contains(t, S_bye)
            body == pending.text
        IN  /\ HasMessage(cur) => ~pending.raised
            /\ ~pending.raised =>
                /\ pending.parse_mode = "None"
                /\ greet => body = GreetHead \o cur.first_name \o GreetTail
                /\ ~greet /\ well => body = WellBeingText
                /\ ~greet /\ ~well /\ bye => body = FarewellText
                /\ ~greet /\ ~well /\ ~bye => body = DefaultHead \o cur.text \o DefaultTail
                /\ Contains(t, S_hello) /\ bye => body = GreetHead \o cur.first_name \o GreetTail
                /\ cur.text = <<>> => body = DefaultHead \o DefaultTail

C4_Witness ==
    /\ invoked = <<"handle_message">>
    /\ Contains(Lower(cur.text), S_hello) /\ Contains(Lower(cur.text), S_bye)
    /\ cur.text # Lower(cur.text)
    /\ pending.text = GreetHead \o cur.first_name \o GreetTail

\* the words of args separated by single spaces, built from the right
SpaceSeparated(args) ==
    LET F[i \in 0..Len(args)] ==
            IF i = 0 THEN <<>>
            ELSE IF i = 1 THEN args[1]
            ELSE F[i - 1] \o <<" ">> \o args[i]
    IN  F[Len(args)]

\* C5: whenever echo_command replies, the reply is the echo indicator followed by
\* the arguments separated by single spaces if there are arguments, and the usage
\* hint if there are none; the usage hint is the reply exactly when there are no
\* arguments; on a new message it always replies.
C5_Theorem ==
    invoked = <<"echo_command">> =>
        /\ HasMessage(cur) => ~pending.raised
        /\ ~pending.raised =>
            /\ cur.args # <<>> => pending.text = EchoHead \o SpaceSeparated(cur.args)
            /\ cur.args = <<>> => pending.text = EchoUsage
            /\ (pending.text = EchoUsage) <=> (cur.args = <<>>)

C5_Witness ==
    /\ invoked = <<"echo_command">>
    /\ Len(cur.args) = 2
    /\ pending.text = EchoHead \o cur.args[1] \o <<" ">> \o cur.args[2]

CredentialMissing == BOT_TOKEN \in {"None", ""}

\* C7: with the credential unset or empty the process never gets past the
\* start-up check: it is still importing or has exited with status 1, no handler
\* is registered or invoked, no update is received and nothing is sent; and it
\* does exit.
C7_Theorem ==
    /\ [](CredentialMissing =>
            /\ phase \in {"import", "exited"}
            /\ phase = "exited" => exit_code = 1
            /\ handlers = <<>> /\ error_handlers = <<>>
            /\ update_queue = <<>> /\ cur = NoUpdate /\ state = "Idle"
            /\ invoked = <<>> /\ sent = <<>>)
    /\ [](~CredentialMissing => phase # "exited")
    /\ (CredentialMissing ~> (phase = "exited"))

C7_Witness == BOT_TOKEN = "" /\ phase = "exited" /\ exit_code = 1

\* C8: while an update is being processed no other update is taken from the
\* queue and the update being processed does not change; a callback position is
\* held only while Processing.
C8_Theorem ==
    /\ [](state = "Idle" <=> pc = "-")
    /\ [][state = "Processing" =>
            /\ Len(update_queue') >= Len(update_queue)
            /\ cur' = cur]_vars
    /\ [][(invoked' # invoked /\ invoked' # <<>>) \/ (sent' # sent /\ sent' # <<>>)
            => state = "Processing" /\ cur' = cur]_vars

C8_Witness == state = "Processing" /\ pc = "reply_text" /\ update_queue # <<>>

\* the outcome of a cycle that worked as it should
Normal ==
    LET i == Select(RegisteredHandlers, cur)
        cb == RegisteredHandlers[i].callback
        r == Call(cb, cur)
    IN  IF i = 0 THEN invoked = <<>> /\ sent = <<>> /\ logged = <<>>
        ELSE /\ invoked = <<cb>>
             /\ IF r.raised THEN sent = <<>> /\ logged = <<r.error>>
                ELSE \/ sent = <<r>> /\ logged = <<>>
                     \/ sent = <<>> /\ logged = <<"NetworkError">>

\* C9: when the callback raised or the send failed, the error is recorded by
\* the error handler and nothing is sent for that update; the update that
\* follows a failed one is processed normally.
C9_Theorem ==
    /\ pc = "error" => sent = <<>>
    /\ Done /\ pending.raised => logged = <<pending.error>> /\ sent = <<>>
    /\ logged # <<>> => sent = <<>> /\ pending.raised
    /\ Done /\ prev_failed => Normal

C9_Witness == Done /\ prev_failed /\ Len(sent) = 1

\* C10 as stated: every update ends with at most one reply and at most one
\* callback invocation, a command update is never handled by handle_message, and
\* every update the registered handlers accept (of any kind) gets exactly one
\* reply unless the send failed.
C10_Stated ==
    Done =>
        /\ Len(sent) <= 1
        /\ Len(invoked) <= 1
        /\ is_command(cur) => invoked # <<"handle_message">>
        /\ (Select(handlers, cur) # 0 /\ logged # <<"NetworkError">>) => Len(sent) = 1

=============================================================================
